---- MODULE Spec2Model ----
(***************************************************************************)
(* Row-driven batch processing of the drive-utilities Apps Script project: *)
(* the sendEmails mail merge (five behaviourally distinct variants) and    *)
(* createCopies, run over one sheet.                                       *)
(*                                                                         *)
(* Variants of sendEmails (the value of `variant`):                        *)
(*   "gs529"  src/Code.gs:529                                              *)
(*   "gs1072" src/Code.gs:1072 (the steps of Code.gs:529; it renders with  *)
(*            the top-level fillInTemplateFromObject_, part_003:105)       *)
(*   "gs816"  src/Code.gs:816                                              *)
(*   "js288"  src/Code.js:288  (src/unnamed/part_001:157 behaves the same, *)
(*            with default header names in place of the prompts)           *)
(*   "js644"  src/Code.js:644                                              *)
(* and "createCopies" is src/Code.gs:313.                                  *)
(*                                                                         *)
(* The sheet is heads (row 1), cells (rows 2..n+1) and hidden (the filter  *)
(* state of rows 2..n+1).  A run is a prelude step, one step per data row  *)
(* and, for sendEmails, the final setValues step.                          *)
(*                                                                         *)
(* Further specifications over the same variables: SpecRender (one call of *)
(* fillInTemplateFromObject_), SpecCopyFiles (copyFiles / copyFolders),    *)
(* SpecUrl (removeQueryFromUrl) and SpecRace (two sendEmails executions at *)
(* the same time on one sheet).                                            *)
(***************************************************************************)
EXTENDS Integers, Sequences, FiniteSets, TLC

\* Bounds of the model.
MaxRows == 3
MaxRuns == 2
MaxSegments == 2
MaxRetrievals == 1

VARIABLES
    variant,         \* which entry point runs
    heads,           \* sheet row 1
    cells,           \* sheet rows 2..n+1: cells[i][j] is row i+1, column j
    hidden,          \* hidden[i]: sheet row i+1 is hidden by a filter
    draftFound,      \* a Gmail draft has the requested subject line
    renderError,     \* "" when the draft is DraftMessage and the runtime has
                     \* what the renderer calls, else the message of what the
                     \* replacer callback throws for every row
    RECIPIENT_COL,   \* resolved header names (sendEmails)
    EMAIL_SENT_COL,
    COPY_NAME_COL,   \* resolved header names (createCopies)
    COPY_URL_COL,
    pc,              \* "idle", "loop", "done", "aborted", "crashed"
    emailTemplate,   \* result of getGmailTemplateFromDrafts_
    data,            \* snapshot taken by getDisplayValues, header shifted off
    rowIdx,          \* number of rows the forEach has handled
    out,             \* the outcome column being built
    outKind,         \* per entry of out: "skipped", "success", "failure"
    sendCalls,       \* per data row: MailApp.sendEmail invocations in this run
    copyCalls,       \* per data row: template.makeCopy invocations in this run
    cellWrites,      \* setValue/setValues calls that reached the sheet in this run
    loopWrites,      \* of those, the ones made while rows were still pending
    runs,            \* runs started
    prevSuccess,     \* rows the previous completed run recorded as success
    prevFailure,     \* rows the previous completed run recorded as failure
    retrievals       \* calls of retrieveFiles / retrieveFolders so far

\* State of one call of fillInTemplateFromObject_(template, data).
VARIABLES
    renderer,        \* which copy of fillInTemplateFromObject_ runs
    regExpEscape,    \* the runtime defines RegExp.escape
    template,        \* the message object {subject, text, html} of the draft
    record,          \* the row object the placeholders are looked up in
    rpc,             \* "idle", "start", "stringified", "replaced", "done", "threw"
    template_string, \* the JSON text being rewritten
    msgObj           \* the value returned

renderVars == << renderer, regExpEscape, template, record, rpc,
                 template_string, msgObj >>

\* State of one call of copyFiles or copyFolders (Code.js:125, Code.js:166).
VARIABLES
    copier,          \* "copyFiles" or "copyFolders"
    firstRow,        \* the sheet row the name range starts at
    filenames,       \* range.getDisplayValues(): the names, top to bottom
    loopIdx,         \* i of the for loop
    urlCells,        \* urlCells[r]: sheet row r, column urlWriteColumn
    cpc              \* "idle", "loop", "done", "crashed"

filesVars == << copier, firstRow, filenames, loopIdx, urlCells, cpc >>

\* State of removeQueryFromUrl applied to a URL and to its own result.
VARIABLES
    urlVariant,      \* which copy of removeQueryFromUrl runs
    url,             \* the argument
    once,            \* removeQueryFromUrl(url)
    twice,           \* removeQueryFromUrl(removeQueryFromUrl(url))
    upc              \* "idle", "start", "once", "twice"

urlVars == << urlVariant, url, once, twice, upc >>

\* State of two sendEmails executions running at the same time on one sheet.
VARIABLES
    job,             \* job[p]: pc, data, rowIdx and out of execution p
    sends,           \* sends[i]: MailApp.sendEmail invocations for data row i
    overlapped       \* an execution took its snapshot while the other was
                     \* between its snapshot and its write-back

raceVars == << job, sends, overlapped >>

besideVars == << filesVars, urlVars, raceVars >>

mainVars == << variant, heads, cells, hidden, draftFound, renderError, RECIPIENT_COL,
               EMAIL_SENT_COL, COPY_NAME_COL, COPY_URL_COL, pc, emailTemplate,
               data, rowIdx, out, outKind, sendCalls, copyCalls, cellWrites,
               loopWrites, runs, prevSuccess, prevFailure, retrievals >>

vars == << mainVars, renderVars, besideVars >>

sheetVars == << variant, heads, hidden, draftFound, renderError, RECIPIENT_COL,
                EMAIL_SENT_COL, COPY_NAME_COL, COPY_URL_COL >>

-----------------------------------------------------------------------------
\* Values

Undefined  == "undefined"          \* the JavaScript value undefined
NotDeclared == "<not declared>"    \* an identifier no file declares
DateValue  == "<Date>"             \* the Date object pushed on success
DateText   == "10/31/2026 9:00:00" \* what a cell holding that Date displays
Template   == "<template>"         \* the object built from the matching draft
NoRecipient == "Failed to send email: no recipient"
ServiceError == "Service invoked too many times for one day: email."
TypeErrorMsg == "Cannot read properties of undefined (reading 'message')"
CopyError  == "Access denied: DriveApp."

\* e.message of what MailApp.sendEmail and File.makeCopy throw: the text is the
\* service's, the catch blocks push it as it is, and an Error may carry none.
MailAppMessages == {ServiceError, ""}
DriveAppMessages == {CopyError, ""}
FileUrl    == "https://docs.google.com/spreadsheets/d/copy/edit"

\* e.message of what the replacer callback of fillInTemplateFromObject_
\* throws: the value looked up for a placeholder is a function (an inherited
\* property of the row object), or, for Code.gs:1072, RegExp.escape is not
\* defined by the runtime.
\* Both depend on the draft, the header row and the runtime, not on the cells
\* of the row (a header name is an own property of every row object and
\* holds a string), so a run has the same result for all rows.
NotAFunction(v) ==
    IF v \in {"gs529", "gs816", "gs1072"} THEN "text.replace is not a function"
    ELSE "str.replace is not a function"

ReplacerMessages(v) ==
    {NotAFunction(v)} \cup
    (IF v = "gs1072" THEN {"RegExp.escape is not a function"} ELSE {})

\* A cell text that holds the control character U+000B (=CHAR(11)).
ControlText == "a<vt>b"

SendVariants == {"gs529", "gs1072", "gs816", "js288", "js644"}

\* Range.getDisplayValues: the text a cell shows.
DisplayValue(v) == IF v = DateValue THEN DateText ELSE v

getDisplayValues(cs) ==
    [i \in DOMAIN cs |-> [j \in DOMAIN cs[i] |-> DisplayValue(cs[i][j])]]

\* String.prototype.trim on the header alphabet of the model.
Trim(s) == IF s \in {"", " ", "  "} THEN "" ELSE s

\* Array.prototype.includes / indexOf (0-based, -1 when absent).
Includes(arr, x) == \E i \in DOMAIN arr : arr[i] = x

IndexOf(arr, x) ==
    IF Includes(arr, x)
    THEN (CHOOSE i \in DOMAIN arr :
              arr[i] = x /\ \A j \in DOMAIN arr : arr[j] = x => i <= j) - 1
    ELSE -1

\* r[i] || '' on display strings.
OrEmpty(v) == IF v = Undefined \/ v = "" THEN "" ELSE v

\* heads.reduce((o, k, i) => (o[k] = r[i] || '', o), {}): a later column with
\* the same header name overwrites an earlier one.
RowObject(hs, r) ==
    [k \in {hs[i] : i \in DOMAIN hs} |->
        LET last == CHOOSE i \in DOMAIN hs :
                        hs[i] = k /\ \A j \in DOMAIN hs : hs[j] = k => j <= i
        IN  OrEmpty(r[last])]

\* row[key]
Get(row, key) == IF key \in DOMAIN row THEN row[key] ELSE Undefined

\* isValidHeaderRow: at least two distinct headers that are not blank.
isValidHeaderRow(headers) ==
    Cardinality({headers[i] : i \in {j \in DOMAIN headers : Trim(headers[j]) # ""}}) >= 2


-----------------------------------------------------------------------------
\* The sheets and parameters the runs start from

SendHeaderRows ==
    { << "Email", "Status" >>,
      << "Email", "Status", "Status" >>,
      << "Email", "Status", "Name" >>,
      << "Email", "" >>,
      << "Email", "Name" >>,
      << "Email", "Name", "" >>,
      << "Name", "Status" >> }

CopyHeaderRows ==
    { << "Name", "Owner", "Notes", "URL" >>,
      << "Owner", "Notes", "Name", "URL" >>,
      << "Name", "URL", "Notes", "Owner" >>,
      << "Name", "", "", "Name" >>,
      << "Owner", "Notes", "Title", "URL" >> }

\* << RECIPIENT_COL, EMAIL_SENT_COL >>.  In the variants that resolve them with
\* emailSent || getUserInput(...), a cancelled prompt gives "".  Code.js:644
\* reads both as free identifiers that no file of the repository declares: they
\* are either undeclared or declared by the hosting project.
SendParams(v) ==
    IF v = "js644"
    THEN { << NotDeclared, NotDeclared >>, << "Email", "Status" >> }
    ELSE { << "Email", "Status" >>, << "Email", "" >> }

\* << COPY_NAME_COL, COPY_URL_COL >>: what the two getUserInput prompts of
\* createCopies return; a cancelled prompt gives "".
CopyParams == { << "Name", "URL" >>, << "", "URL" >>, << "Name", "" >> }

\* What a cell of column j may hold before the first run.
ColumnValues(v, hs, j) ==
    IF v = "createCopies"
    THEN CASE hs[j] = "Name" -> {"", "Report"}
           [] hs[j] = "URL"  -> {"", "https://old"}
           [] OTHER          -> {""}
    ELSE IF j = 1 THEN {"", "a@x.com"}
         ELSE IF hs[j] = "Name" THEN {"", ControlText}
         ELSE {"", "sent"}

RowValues(v, hs) ==
    {r \in [DOMAIN hs -> UNION {ColumnValues(v, hs, j) : j \in DOMAIN hs}] :
        \A j \in DOMAIN hs : r[j] \in ColumnValues(v, hs, j)}

\* Whether a row may start hidden by a filter; the sheet with the repeated
\* header is enumerated with no filter set.
FilterStates(hs) == IF Len(hs) = 3 THEN {FALSE} ELSE BOOLEAN

\* No call of fillInTemplateFromObject_, copyFiles, copyFolders or
\* removeQueryFromUrl under way, no second execution.
RenderIdle ==
    /\ renderer = "none" /\ regExpEscape = FALSE
    /\ template = << >> /\ record = << >>
    /\ rpc = "idle" /\ template_string = << >> /\ msgObj = << >>

FilesIdle ==
    /\ copier = "none" /\ firstRow = 0 /\ filenames = << >>
    /\ loopIdx = 0 /\ urlCells = << >> /\ cpc = "idle"

UrlIdle ==
    /\ urlVariant = "none" /\ url = << >> /\ once = << >> /\ twice = << >>
    /\ upc = "idle"

RaceIdle == job = << >> /\ sends = << >> /\ overlapped = FALSE

Init ==
    /\ variant \in SendVariants \cup {"createCopies"}
    /\ heads \in (IF variant = "createCopies" THEN CopyHeaderRows ELSE SendHeaderRows)
    /\ \E n \in 1..MaxRows :
          /\ cells \in [1..n -> RowValues(variant, heads)]
          /\ hidden \in [1..n -> FilterStates(heads)]
    /\ draftFound \in (IF variant = "createCopies" THEN {TRUE} ELSE BOOLEAN)
    /\ renderError \in (IF variant \in SendVariants /\ draftFound
                         THEN {""} \cup ReplacerMessages(variant) ELSE {""})
    /\ IF variant = "createCopies"
       THEN /\ RECIPIENT_COL = "" /\ EMAIL_SENT_COL = ""
            /\ \E p \in CopyParams :
                  COPY_NAME_COL = p[1] /\ COPY_URL_COL = p[2]
       ELSE /\ \E p \in SendParams(variant) :
                  RECIPIENT_COL = p[1] /\ EMAIL_SENT_COL = p[2]
            /\ COPY_NAME_COL = "" /\ COPY_URL_COL = ""
    /\ pc = "idle"
    /\ emailTemplate = Undefined
    /\ data = << >>
    /\ rowIdx = 0
    /\ out = << >>
    /\ outKind = << >>
    /\ sendCalls = [i \in DOMAIN cells |-> 0]
    /\ copyCalls = [i \in DOMAIN cells |-> 0]
    /\ cellWrites = 0
    /\ loopWrites = 0
    /\ runs = 0
    /\ prevSuccess = {}
    /\ prevFailure = {}
    /\ retrievals = 0
    /\ RenderIdle
    /\ FilesIdle /\ UrlIdle /\ RaceIdle

-----------------------------------------------------------------------------
\* fillInTemplateFromObject_(template, data) and escapeData_(str)
\*
\* A string is the sequence of its characters.  "subject", "text", "html" and
\* "constructor" stand for those words written out (they contain no character
\* that any step below treats specially).
\*
\* Copies of the function (the value of `renderer`):
\*   "gs727"    src/Code.gs:727 (src/Code.gs:998 is the same)
\*   "js463"    src/Code.js:463 (src/unnamed/part_001:332 is the same)
\*   "js782"    src/Code.js:782
\*   "part003"  src/unnamed/part_003:105

Renderers == {"gs727", "js463", "js782", "part003"}

BS == "\\"
QT == "\""
NL == "\n"
SL == "/"
LineBreak == << "<", "b", "r", ">" >>
Backspace == "<backspace>"     \* the character U+0008
VT == "<vt>"                   \* the character U+000B

RECURSIVE Flatten(_)
Flatten(ss) == IF ss = << >> THEN << >> ELSE Head(ss) \o Flatten(Tail(ss))

\* str.replace(/[c]/g, to)
replaceChar(str, c, to) ==
    Flatten([i \in DOMAIN str |-> IF str[i] = c THEN to ELSE << str[i] >>])

\* JSON.stringify of a string: quoted, with ", \ and the control characters
\* escaped.
QuoteJSONString(str) ==
    << QT >>
    \o Flatten([i \in DOMAIN str |->
                  CASE str[i] = QT -> << BS, QT >>
                    [] str[i] = BS -> << BS, BS >>
                    [] str[i] = NL -> << BS, "n" >>
                    [] str[i] = "\t" -> << BS, "t" >>
                    [] str[i] = "\r" -> << BS, "r" >>
                    [] str[i] = "\f" -> << BS, "f" >>
                    [] str[i] = Backspace -> << BS, "b" >>
                    [] str[i] = VT -> << BS, "u", "0", "0", "0", "b" >>
                    [] OTHER -> << str[i] >>])
    \o << QT >>

\* JSON.stringify(template) of the message object, keys in insertion order.
JSONstringify(t) ==
    << "{", QT, "subject", QT, ":" >> \o QuoteJSONString(t.subject)
    \o << ",", QT, "text", QT, ":" >> \o QuoteJSONString(t.text)
    \o << ",", QT, "html", QT, ":" >> \o QuoteJSONString(t.html)
    \o << "}" >>

\* The longest run of characters other than { and } that starts after
\* position k: the index of its last character (k when it is empty).
RECURSIVE RunEnd(_, _)
RunEnd(s, k) ==
    IF k + 1 <= Len(s) /\ s[k + 1] \notin {"{", "}"} THEN RunEnd(s, k + 1) ELSE k

\* The regular expression /{{[^{}]+}}/ tried at position i of s, the run
\* [^{}]+ ending at k: the index of the last character of the match, or 0.
MatchClose(s, i, k) ==
    IF k >= i + 2 /\ k + 2 <= Len(s) /\ s[k + 1] = "}" /\ s[k + 2] = "}"
    THEN k + 2 ELSE 0

MatchEnd(s, i) ==
    IF i + 1 <= Len(s) /\ s[i] = "{" /\ s[i + 1] = "{"
    THEN MatchClose(s, i, RunEnd(s, i + 1))
    ELSE 0

\* Names every object inherits from Object.prototype.
ObjectPrototypeKeys == { << "constructor" >> }

\* data[key] || "": an own field, an inherited function, or undefined.
LookupOrEmpty(d, key) ==
    IF key \in DOMAIN d THEN [kind |-> "string", chars |-> d[key]]
    ELSE IF key \in ObjectPrototypeKeys THEN [kind |-> "function", chars |-> << >>]
    ELSE [kind |-> "string", chars |-> << >>]

\* Variation of escapeData_: the backslash pass comes after the quote pass.
escapeData_BackslashLate(r, str) ==
    LET s1 == replaceChar(str, QT, << BS, QT >>)
        s2 == replaceChar(s1, BS, << BS, BS >>)
        s3 == replaceChar(s2, SL, << BS, SL >>)
        s4 == replaceChar(s3, Backspace, << BS, "b" >>)
        s5 == replaceChar(s4, "\f", << BS, "f" >>)
        s6 == replaceChar(s5, NL, IF r = "js782" THEN LineBreak ELSE << BS, "n" >>)
        s7 == replaceChar(s6, "\r", << BS, "r" >>)
    IN  replaceChar(s7, "\t", << BS, "t" >>)

\* escapeData_(str): the chain of replace calls, in the order of the source.
\* Code.js:782 turns a newline into <br>, the other copies into \n.
escapeData_(r, str) ==
    LET s1 == replaceChar(str, BS, << BS, BS >>)
        s2 == replaceChar(s1, QT, << BS, QT >>)
        s3 == replaceChar(s2, SL, << BS, SL >>)
        s4 == replaceChar(s3, Backspace, << BS, "b" >>)
        s5 == replaceChar(s4, "\f", << BS, "f" >>)
        s6 == replaceChar(s5, NL, IF r = "js782" THEN LineBreak ELSE << BS, "n" >>)
        s7 == replaceChar(s6, "\r", << BS, "r" >>)
    IN  replaceChar(s7, "\t", << BS, "t" >>)

\* RegExp.escape(str) where the runtime has it: an initial letter and the
\* punctuators become \xHH, the syntax characters get a backslash, the
\* control characters their letter escape.
HexEscape(c) ==
    << BS, "x" >> \o
    CASE c = "a" -> << "6", "1" >>
      [] c = "b" -> << "6", "2" >>
      [] c = "h" -> << "6", "8" >>
      [] c = "n" -> << "6", "e" >>
      [] c = "r" -> << "7", "2" >>
      [] c = "R" -> << "5", "2" >>
      [] c = "S" -> << "5", "3" >>
      [] c = QT  -> << "2", "2" >>
      [] c = ":" -> << "3", "a" >>
      [] c = "<" -> << "3", "c" >>
      [] c = "=" -> << "3", "d" >>
      [] c = ">" -> << "3", "e" >>
      [] c = "@" -> << "4", "0" >>

RegExpEscape(str) ==
    Flatten([i \in DOMAIN str |->
               CASE str[i] \in {"{", "}", BS, SL, ".", "?"} -> << BS, str[i] >>
                 [] str[i] = "\t" -> << BS, "t" >>
                 [] str[i] = "\r" -> << BS, "r" >>
                 [] str[i] = "\f" -> << BS, "f" >>
                 [] str[i] = VT -> << BS, "v" >>
                 [] str[i] \in {QT, "<", ">", ":", "=", "@"} -> HexEscape(str[i])
                 [] i = 1 /\ str[i] \in {"a", "n", "b", "r", "h", "R", "S"} ->
                        HexEscape(str[i])
                 [] OTHER -> << str[i] >>])

\* The replacer callback throws a TypeError: the value looked up is a function
\* (no replace method), or RegExp.escape is not defined.
ReplacerThrows(r, esc, d, key) ==
    \/ LookupOrEmpty(d, key).kind = "function"
    \/ r = "part003" /\ ~esc

\* The text the replacer callback returns for a match.
Replacer(r, d, key) ==
    LET text == LookupOrEmpty(d, key).chars
    IN  CASE r = "gs727" -> escapeData_(r, replaceChar(text, NL, LineBreak))
          [] r = "part003" -> RegExpEscape(replaceChar(text, NL, LineBreak))
          [] OTHER -> escapeData_(r, text)

\* template_string.replace(/{{[^{}]+}}/g, key => ...) from position i on: a
\* left-to-right scan; a match is replaced by what the callback returns for
\* key.replace(/[{}]+/g, ""), and the scan resumes after the match.
RECURSIVE replaceFrom(_, _, _, _, _)
replaceFrom(r, d, str, i, e) ==
    IF i > Len(str) THEN << >>
    ELSE IF e > 0
         THEN Replacer(r, d, SubSeq(str, i + 2, e - 2))
              \o replaceFrom(r, d, str, e + 1, MatchEnd(str, e + 1))
         ELSE << str[i] >> \o replaceFrom(r, d, str, i + 1, MatchEnd(str, i + 1))

stringReplace(r, d, str) == replaceFrom(r, d, str, 1, MatchEnd(str, 1))

\* Some callback of that scan throws.
RECURSIVE throwsFrom(_, _, _, _, _, _)
throwsFrom(r, esc, d, str, i, e) ==
    IF i > Len(str) THEN FALSE
    ELSE IF e > 0
         THEN \/ ReplacerThrows(r, esc, d, SubSeq(str, i + 2, e - 2))
              \/ throwsFrom(r, esc, d, str, e + 1, MatchEnd(str, e + 1))
         ELSE throwsFrom(r, esc, d, str, i + 1, MatchEnd(str, i + 1))

stringReplaceThrows(r, esc, d, str) ==
    throwsFrom(r, esc, d, str, 1, MatchEnd(str, 1))

\* JSON.parse, for the texts the steps above can produce: an object whose
\* members are strings.  A string body ends at the first unescaped quote; a
\* backslash must start one of the JSON escapes; a raw control character is
\* not allowed.
ParseFail == [ok |-> FALSE, val |-> << >>, next |-> 0]

RECURSIVE StringBody(_, _, _)
StringBody(s, i, acc) ==
    IF i > Len(s) THEN ParseFail
    ELSE IF s[i] = QT THEN [ok |-> TRUE, val |-> acc, next |-> i + 1]
    ELSE IF s[i] = BS
         THEN IF i + 1 > Len(s) THEN ParseFail
              ELSE IF s[i + 1] \in {QT, BS, SL}
                   THEN StringBody(s, i + 2, Append(acc, s[i + 1]))
              ELSE IF s[i + 1] = "n" THEN StringBody(s, i + 2, Append(acc, NL))
              ELSE IF s[i + 1] = "t" THEN StringBody(s, i + 2, Append(acc, "\t"))
              ELSE IF s[i + 1] = "r" THEN StringBody(s, i + 2, Append(acc, "\r"))
              ELSE IF s[i + 1] = "f" THEN StringBody(s, i + 2, Append(acc, "\f"))
              ELSE IF s[i + 1] = "b" THEN StringBody(s, i + 2, Append(acc, Backspace))
              ELSE IF i + 5 <= Len(s) /\ SubSeq(s, i + 1, i + 5) = << "u", "0", "0", "0", "b" >>
                   THEN StringBody(s, i + 6, Append(acc, VT))
              ELSE ParseFail
    ELSE IF s[i] \in {NL, "\t", "\r", "\f", Backspace, VT} THEN ParseFail
    ELSE StringBody(s, i + 1, Append(acc, s[i]))

ObjectFail == [ok |-> FALSE, obj |-> << >>]

RECURSIVE ParseMembers(_, _, _)
ParseMembers(s, i, acc) ==
    IF i > Len(s) \/ s[i] # QT THEN ObjectFail
    ELSE LET k == StringBody(s, i + 1, << >>)
         IN  IF ~k.ok \/ k.next + 1 > Len(s) \/ Len(k.val) # 1 THEN ObjectFail
             ELSE IF s[k.next] # ":" \/ s[k.next + 1] # QT THEN ObjectFail
             ELSE LET v == StringBody(s, k.next + 2, << >>)
                      name == k.val[1]
                      acc2 == [x \in DOMAIN acc \cup {name} |->
                                  IF x = name THEN v.val ELSE acc[x]]
                  IN  IF ~v.ok \/ v.next > Len(s) THEN ObjectFail
                      ELSE IF s[v.next] = "," THEN ParseMembers(s, v.next + 1, acc2)
                      ELSE IF s[v.next] = "}" /\ v.next = Len(s)
                           THEN [ok |-> TRUE, obj |-> acc2]
                      ELSE ObjectFail

JSONparse(s) ==
    IF Len(s) >= 2 /\ s[1] = "{" THEN ParseMembers(s, 2, << >>) ELSE ObjectFail

\* The text of a placeholder.
Placeholder(name) == << "{", "{" >> \o name \o << "}", "}" >>

-----------------------------------------------------------------------------
\* Rendering in a sendEmails run

\* The copy of fillInTemplateFromObject_ each sendEmails calls.
rendererOf(v) ==
    CASE v \in {"gs529", "gs816"} -> "gs727"
      [] v = "gs1072" -> "part003"
      [] v = "js288" -> "js463"
      [] v = "js644" -> "js782"

\* emailTemplate.message of a run whose replacer callback does not throw: the
\* draft with subject S and body Hi {{Name}}.
DraftMessage ==
    [subject |-> << "S" >>,
     text |-> << "H", "i", " " >> \o Placeholder(<< "Name" >>),
     html |-> << "H", "i", " " >> \o Placeholder(<< "Name" >>)]

\* The texts a cell under the header Name shows in the sheets of the model,
\* each with its characters.
Characters ==
    "" :> << >>
    @@ ControlText :> << "a", VT, "b" >>
    @@ "a@x.com" :> << "a", "@", "x", ".", "c", "o", "m" >>
    @@ "Report" :> << "R", "e", "p", "o", "r", "t" >>
    @@ "Sub" :> << "S", "u", "b" >>
    @@ "https://drive.google.com/open?id=F1" :>
          << "h", "t", "t", "p", "s", ":", SL, SL, "d", "r", "i", "v", "e", ".",
             "g", "o", "o", "g", "l", "e", ".", "c", "o", "m", SL,
             "o", "p", "e", "n", "?", "i", "d", "=", "F", "1" >>
    @@ "https://drive.google.com/drive/folders/D1" :>
          << "h", "t", "t", "p", "s", ":", SL, SL, "d", "r", "i", "v", "e", ".",
             "g", "o", "o", "g", "l", "e", ".", "c", "o", "m", SL,
             "d", "r", "i", "v", "e", SL,
             "f", "o", "l", "d", "e", "r", "s", SL, "D", "1" >>

\* e.message of the SyntaxError JSON.parse(template_string) throws, or "" when
\* it returns, per variant and text of the Name cell:
\* fillInTemplateFromObject_(DraftMessage, row) run through the steps of its
\* renderer.  The text is V8's.  escapeData_ writes JSON escapes only, so
\* what JSON.parse rejects in its output is a control character it has no
\* pass for; RegExp.escape writes \xHH for the initial letter of a value,
\* which is the first thing JSON.parse rejects.
SyntaxErrors ==
    [v \in SendVariants |->
        [t \in DOMAIN Characters |->
            IF JSONparse(stringReplace(rendererOf(v),
                                       [k \in {<< "Name" >>} |-> Characters[t]],
                                       JSONstringify(DraftMessage))).ok
            THEN ""
            ELSE IF rendererOf(v) = "part003"
                 THEN "Bad escaped character in JSON at position 27"
                 ELSE "Bad control character in string literal in JSON at position 27"]]

\* What fillInTemplateFromObject_ throws for the row: the message, or "" when
\* it returns.  row.Name || "" is the one value DraftMessage looks up.
renderThrows(v, row) ==
    IF renderError # "" THEN renderError
    ELSE SyntaxErrors[v][IF "Name" \in DOMAIN row THEN row["Name"] ELSE ""]

\* Every message a rendering of the variant can throw.
RenderMessages(v) ==
    ReplacerMessages(v) \cup ({SyntaxErrors[v][t] : t \in DOMAIN Characters} \ {""})

-----------------------------------------------------------------------------
\* sendEmails

\* getGmailTemplateFromDrafts_(subjectLine): the template, undefined, or a throw.
\* With no matching draft the Code.gs variants return at the !draft test;
\* Code.js:288 fails on draft.getMessage(), catches and returns; Code.js:644
\* rethrows.
getGmailTemplateFromDrafts_(v, found) ==
    IF found THEN Template
    ELSE IF v = "js644" THEN "throw" ELSE Undefined

\* Where the statements before the forEach leave the run.
sendEmailsPrelude(v, hs, tmpl) ==
    CASE v \in {"gs529", "gs1072", "gs816"} ->
            IF ~isValidHeaderRow(hs) THEN "aborted"
            ELSE IF ~Includes(hs, RECIPIENT_COL) THEN "aborted"
            ELSE IF ~Includes(hs, EMAIL_SENT_COL) THEN "aborted"
            ELSE "loop"
      [] v = "js288" ->
            IF ~Includes(hs, RECIPIENT_COL) THEN "aborted"
            ELSE IF ~Includes(hs, EMAIL_SENT_COL) THEN "aborted"
            ELSE "loop"
      [] v = "js644" ->
            IF tmpl = "throw" THEN "crashed"
            ELSE IF EMAIL_SENT_COL = NotDeclared THEN "crashed"
            ELSE "loop"

\* Variation of IsEligible: the filter state of the row is not consulted.
IsEligible_IgnoresFilter(v, row, isHidden) ==
    CASE v \in {"gs529", "gs1072"} ->
            Get(row, RECIPIENT_COL) # "" /\ Get(row, EMAIL_SENT_COL) = ""
      [] v = "gs816" ->
            Get(row, RECIPIENT_COL) = "" /\ Get(row, EMAIL_SENT_COL) = ""
      [] v \in {"js288", "js644"} ->
            Get(row, EMAIL_SENT_COL) = ""

\* The condition of the if in the forEach callback.
IsEligible(v, row, isHidden) ==
    CASE v \in {"gs529", "gs1072"} ->
            Get(row, RECIPIENT_COL) # "" /\ Get(row, EMAIL_SENT_COL) = "" /\ ~isHidden
      [] v = "gs816" ->
            Get(row, RECIPIENT_COL) = "" /\ Get(row, EMAIL_SENT_COL) = "" /\ ~isHidden
      [] v \in {"js288", "js644"} ->
            Get(row, EMAIL_SENT_COL) = "" /\ ~isHidden

\* The record of the row the forEach is at.
CurrentRow == RowObject(heads, data[rowIdx + 1])

InLoop == pc = "loop" /\ rowIdx < Len(data)

ResetRun ==
    /\ rowIdx' = 0
    /\ out' = << >>
    /\ outKind' = << >>
    /\ sendCalls' = [i \in DOMAIN cells |-> 0]
    /\ copyCalls' = [i \in DOMAIN cells |-> 0]
    /\ cellWrites' = 0
    /\ loopWrites' = 0
    /\ runs' = runs + 1
    /\ prevSuccess' = IF pc = "done"
                      THEN {i \in DOMAIN outKind : outKind[i] = "success"}
                      ELSE {}
    /\ prevFailure' = IF pc = "done"
                      THEN {i \in DOMAIN outKind : outKind[i] = "failure"}
                      ELSE {}

\* sendEmails up to the forEach: resolve the template, snapshot the sheet,
\* validate the header row.  When getGmailTemplateFromDrafts_ throws
\* (Code.js:644) the run ends before the sheet is read.
sendEmailsBegin ==
    /\ variant \in SendVariants
    /\ pc \in {"idle", "done", "aborted", "crashed"}
    /\ runs < MaxRuns
    /\ emailTemplate' = getGmailTemplateFromDrafts_(variant, draftFound)
    /\ data' = IF emailTemplate' = "throw" THEN << >>
               ELSE getDisplayValues(cells)
    /\ pc' = sendEmailsPrelude(variant, heads, emailTemplate')
    /\ ResetRun
    /\ UNCHANGED << renderVars, besideVars >>
    /\ UNCHANGED << sheetVars, cells, retrievals >>

Push(value, kind) ==
    /\ out' = Append(out, value)
    /\ outKind' = Append(outKind, kind)
    /\ rowIdx' = rowIdx + 1

\* Eligible row, template present, MailApp.sendEmail returns.
RowSent ==
    /\ variant \in SendVariants /\ InLoop
    /\ IsEligible(variant, CurrentRow, hidden[rowIdx + 1])
    /\ emailTemplate = Template /\ renderThrows(variant, CurrentRow) = ""
    /\ Get(CurrentRow, RECIPIENT_COL) \notin {"", Undefined}
    /\ sendCalls' = [sendCalls EXCEPT ![rowIdx + 1] = @ + 1]
    /\ Push(DateValue, "success")
    /\ UNCHANGED << renderVars, besideVars >>
    /\ UNCHANGED << sheetVars, cells, pc, emailTemplate, data, copyCalls,
                    cellWrites, loopWrites, runs, prevSuccess, prevFailure, retrievals >>

\* Eligible row, template present, MailApp.sendEmail throws: caught, the message
\* is pushed.  An empty or undefined recipient always throws.
RowSendThrows ==
    /\ variant \in SendVariants /\ InLoop
    /\ IsEligible(variant, CurrentRow, hidden[rowIdx + 1])
    /\ emailTemplate = Template /\ renderThrows(variant, CurrentRow) = ""
    /\ sendCalls' = [sendCalls EXCEPT ![rowIdx + 1] = @ + 1]
    /\ \E message \in (IF Get(CurrentRow, RECIPIENT_COL) \in {"", Undefined}
                       THEN {NoRecipient} ELSE MailAppMessages) :
          Push(message, "failure")
    /\ UNCHANGED << renderVars, besideVars >>
    /\ UNCHANGED << sheetVars, cells, pc, emailTemplate, data, copyCalls,
                    cellWrites, loopWrites, runs, prevSuccess, prevFailure, retrievals >>

\* Eligible row, template present, fillInTemplateFromObject_ throws: caught,
\* the message is pushed, MailApp.sendEmail is not reached.
RowRenderThrows ==
    /\ variant \in SendVariants /\ InLoop
    /\ IsEligible(variant, CurrentRow, hidden[rowIdx + 1])
    /\ emailTemplate = Template /\ renderThrows(variant, CurrentRow) # ""
    /\ Push(renderThrows(variant, CurrentRow), "failure")
    /\ UNCHANGED << renderVars, besideVars >>
    /\ UNCHANGED << sheetVars, cells, pc, emailTemplate, data, sendCalls,
                    copyCalls, cellWrites, loopWrites, runs, prevSuccess,
                    prevFailure, retrievals >>

\* Eligible row, emailTemplate undefined: emailTemplate.message throws a
\* TypeError inside the try, before MailApp.sendEmail; caught, message pushed.
RowTemplateThrows ==
    /\ variant \in SendVariants /\ InLoop
    /\ IsEligible(variant, CurrentRow, hidden[rowIdx + 1])
    /\ emailTemplate = Undefined
    /\ Push(TypeErrorMsg, "failure")
    /\ UNCHANGED << renderVars, besideVars >>
    /\ UNCHANGED << sheetVars, cells, pc, emailTemplate, data, sendCalls,
                    copyCalls, cellWrites, loopWrites, runs, prevSuccess, prevFailure, retrievals >>

\* The else branch: the row's status value is pushed unchanged.
RowSkipped ==
    /\ variant \in SendVariants /\ InLoop
    /\ ~IsEligible(variant, CurrentRow, hidden[rowIdx + 1])
    /\ Push(Get(CurrentRow, EMAIL_SENT_COL), "skipped")
    /\ UNCHANGED << renderVars, besideVars >>
    /\ UNCHANGED << sheetVars, cells, pc, emailTemplate, data, sendCalls,
                    copyCalls, cellWrites, loopWrites, runs, prevSuccess, prevFailure, retrievals >>

\* heads.indexOf(EMAIL_SENT_COL)
emailSentColIdx == IndexOf(heads, EMAIL_SENT_COL)

\* Variation of setValues: the range starts at the header row (row 1), so
\* entry i lands one row above data row i.
setValues_FromHeaderRow(cs, column, values) ==
    [i \in DOMAIN cs |->
        IF i + 1 \in DOMAIN values
        THEN [cs[i] EXCEPT ![column] = values[i + 1]] ELSE cs[i]]

\* Variation of setValues: the range spans every column of the sheet, so
\* entry i fills the whole of data row i.
setValues_WholeRow(cs, column, values) ==
    [i \in DOMAIN cs |->
        IF i \in DOMAIN values THEN [j \in DOMAIN cs[i] |-> values[i]] ELSE cs[i]]

\* Range.setValues(values) on the one-column range starting at sheet row 2.
setValues(cs, column, values) ==
    [i \in DOMAIN cs |->
        IF i \in DOMAIN values THEN [cs[i] EXCEPT ![column] = values[i]] ELSE cs[i]]

\* sheet.getRange(2, emailSentColIdx + 1, out.length).setValues(out); getRange
\* throws for a column below 1.
sendEmailsWriteBack ==
    /\ variant \in SendVariants
    /\ pc = "loop" /\ rowIdx = Len(data)
    /\ IF emailSentColIdx + 1 >= 1
       THEN /\ cells' = setValues(cells, emailSentColIdx + 1, out)
            /\ cellWrites' = cellWrites + 1
            /\ pc' = "done"
       ELSE /\ pc' = "crashed"
            /\ UNCHANGED << cells, cellWrites >>
    /\ UNCHANGED << renderVars, besideVars >>
    /\ UNCHANGED << sheetVars, emailTemplate, data, rowIdx, out, outKind,
                    sendCalls, copyCalls, loopWrites, runs, prevSuccess, prevFailure, retrievals >>


-----------------------------------------------------------------------------
\* createCopies

\* urlColumn = "4": the assignment at the top of createCopies overrides the
\* argument.
urlColumnParam == 4

\* The if / else-if chain on urlColumn and heads.indexOf(COPY_URL_COL): the
\* run aborts, or goes on with col as the new value of urlColumn.
resolveUrlColumn(urlColumn, hs, urlCol) ==
    LET idx == IndexOf(hs, urlCol) IN
    IF urlColumn - 1 = idx THEN [abort |-> FALSE, col |-> idx]
    ELSE IF urlColumn # 0 /\ urlColumn - 1 # idx THEN [abort |-> TRUE, col |-> urlColumn]
    ELSE IF urlColumn = 0 /\ ~Includes(hs, urlCol) THEN [abort |-> TRUE, col |-> urlColumn]
    ELSE IF urlColumn = 0 /\ Includes(hs, urlCol) THEN [abort |-> FALSE, col |-> idx]
    ELSE IF urlColumn # 0 /\ ~Includes(hs, urlCol) THEN [abort |-> FALSE, col |-> urlColumn]
    ELSE [abort |-> TRUE, col |-> urlColumn]

\* Where the statements before the forEach leave the run.
createCopiesPrelude(hs) ==
    IF COPY_NAME_COL = "" THEN "aborted"
    ELSE IF COPY_URL_COL = "" THEN "aborted"
    ELSE IF ~isValidHeaderRow(hs) THEN "aborted"
    ELSE IF ~Includes(hs, COPY_NAME_COL) THEN "aborted"
    ELSE IF resolveUrlColumn(urlColumnParam, hs, COPY_URL_COL).abort THEN "aborted"
    ELSE "loop"

\* urlColumn as the forEach callback reads it.
urlColumn == resolveUrlColumn(urlColumnParam, heads, COPY_URL_COL).col

\* The condition of the if in the forEach callback.
IsCopyEligible(row, isHidden) ==
    Get(row, COPY_NAME_COL) # "" /\ Get(row, COPY_URL_COL) = "" /\ ~isHidden

\* createCopies up to the forEach.  With a header name left empty the function
\* returns before the sheet is opened and read.
createCopiesBegin ==
    /\ variant = "createCopies"
    /\ pc \in {"idle", "done", "aborted", "crashed"}
    /\ runs < MaxRuns
    /\ data' = IF COPY_NAME_COL = "" \/ COPY_URL_COL = "" THEN << >>
               ELSE getDisplayValues(cells)
    /\ pc' = createCopiesPrelude(heads)
    /\ ResetRun
    /\ UNCHANGED << renderVars, besideVars >>
    /\ UNCHANGED << sheetVars, cells, emailTemplate, retrievals >>

\* Eligible row, makeCopy returns: the URL is written at once with
\* sheet.getRange(rowIdx + 2, parseInt(urlColumn)).setValue(fileUrl), then
\* pushed.  getRange throws for a column below 1; the catch pushes the message.
CopyRowCopied ==
    /\ variant = "createCopies" /\ InLoop
    /\ IsCopyEligible(CurrentRow, hidden[rowIdx + 1])
    /\ copyCalls' = [copyCalls EXCEPT ![rowIdx + 1] = @ + 1]
    /\ IF urlColumn >= 1
       THEN /\ cells' = [cells EXCEPT ![rowIdx + 1][urlColumn] = FileUrl]
            /\ cellWrites' = cellWrites + 1
            /\ loopWrites' = loopWrites + (IF rowIdx + 1 < Len(data) THEN 1 ELSE 0)
            /\ Push(FileUrl, "success")
       ELSE /\ Push("The starting column of the range is too small.", "failure")
            /\ UNCHANGED << cells, cellWrites, loopWrites >>
    /\ UNCHANGED << renderVars, besideVars >>
    /\ UNCHANGED << sheetVars, pc, emailTemplate, data, sendCalls, runs,
                    prevSuccess, prevFailure, retrievals >>

\* Eligible row, makeCopy throws: caught, the message is pushed.
CopyRowThrows ==
    /\ variant = "createCopies" /\ InLoop
    /\ IsCopyEligible(CurrentRow, hidden[rowIdx + 1])
    /\ copyCalls' = [copyCalls EXCEPT ![rowIdx + 1] = @ + 1]
    /\ \E message \in DriveAppMessages : Push(message, "failure")
    /\ UNCHANGED << renderVars, besideVars >>
    /\ UNCHANGED << sheetVars, cells, pc, emailTemplate, data, sendCalls,
                    cellWrites, loopWrites, runs, prevSuccess, prevFailure, retrievals >>

\* The else branch: the row's URL value is pushed.
CopyRowSkipped ==
    /\ variant = "createCopies" /\ InLoop
    /\ ~IsCopyEligible(CurrentRow, hidden[rowIdx + 1])
    /\ Push(Get(CurrentRow, COPY_URL_COL), "skipped")
    /\ UNCHANGED << renderVars, besideVars >>
    /\ UNCHANGED << sheetVars, cells, pc, emailTemplate, data, sendCalls,
                    copyCalls, cellWrites, loopWrites, runs, prevSuccess, prevFailure, retrievals >>

\* After the forEach createCopies only logs: out is never written.
createCopiesEnd ==
    /\ variant = "createCopies"
    /\ pc = "loop" /\ rowIdx = Len(data)
    /\ pc' = "done"
    /\ UNCHANGED << renderVars, besideVars >>
    /\ UNCHANGED << sheetVars, cells, emailTemplate, data, rowIdx, out, outKind,
                    sendCalls, copyCalls, cellWrites, loopWrites, runs,
                    prevSuccess, prevFailure, retrievals >>

-----------------------------------------------------------------------------
\* retrieveFiles and retrieveFolders (Code.js:205, Code.js:243 and their copies)

\* The rows [name, URL] built from the folder's files and from its subfolders,
\* for a folder that holds one file and one subfolder.
fileData == << << "Report", "https://drive.google.com/open?id=F1" >> >>
folderData == << << "Sub", "https://drive.google.com/drive/folders/D1" >> >>

\* sheet.getRange(2, 1, values.length, 2).setValues(values): columns 1 and 2
\* of sheet rows 2..values.length+1; a row the sheet did not have is created
\* with its other cells empty.
setValuesBlock(cs, width, values) ==
    [i \in 1..(IF Len(values) > Len(cs) THEN Len(values) ELSE Len(cs)) |->
        IF i \in DOMAIN values
        THEN [j \in 1..width |->
                 IF j <= 2 THEN values[i][j]
                 ELSE IF i \in DOMAIN cs THEN cs[i][j] ELSE ""]
        ELSE cs[i]]

\* The effect of retrieveFiles / retrieveFolders on the active sheet, for a
\* folder that is not empty (for an empty folder, and when the folder cannot
\* be opened, the sheet is not written: a stuttering step).  The variables that
\* describe the last sendEmails / createCopies run go back to "no run": the
\* sheet is no longer the one that run left.
retrieve(values) ==
    /\ cells' = setValuesBlock(cells, Len(heads), values)
    /\ hidden' = [i \in DOMAIN cells' |->
                     IF i \in DOMAIN hidden THEN hidden[i] ELSE FALSE]
    /\ retrievals' = retrievals + 1
    /\ pc' = "idle"
    /\ emailTemplate' = Undefined
    /\ data' = << >>
    /\ rowIdx' = 0
    /\ out' = << >>
    /\ outKind' = << >>
    /\ sendCalls' = [i \in DOMAIN cells' |-> 0]
    /\ copyCalls' = [i \in DOMAIN cells' |-> 0]
    /\ cellWrites' = 0
    /\ loopWrites' = 0
    /\ prevSuccess' = {}
    /\ prevFailure' = {}
    /\ UNCHANGED << variant, heads, draftFound, renderError, RECIPIENT_COL,
                    EMAIL_SENT_COL, COPY_NAME_COL, COPY_URL_COL, runs >>
    /\ UNCHANGED << renderVars, besideVars >>

retrieveFiles ==
    /\ pc \in {"idle", "done", "aborted", "crashed"}
    /\ retrievals < MaxRetrievals
    /\ retrieve(fileData)

retrieveFolders ==
    /\ pc \in {"idle", "done", "aborted", "crashed"}
    /\ retrievals < MaxRetrievals
    /\ retrieve(folderData)

-----------------------------------------------------------------------------
Next ==
    \/ sendEmailsBegin
    \/ RowSent
    \/ RowSendThrows
    \/ RowRenderThrows
    \/ RowTemplateThrows
    \/ RowSkipped
    \/ sendEmailsWriteBack
    \/ createCopiesBegin
    \/ CopyRowCopied
    \/ CopyRowThrows
    \/ CopyRowSkipped
    \/ createCopiesEnd
    \/ retrieveFiles
    \/ retrieveFolders

Spec == Init /\ [][Next]_vars


-----------------------------------------------------------------------------
\* Vocabulary of the properties

\* The record, status value and recipient of data row i of the snapshot.
RowAt(i) == RowObject(heads, data[i])
StatusOf(i) == Get(RowAt(i), EMAIL_SENT_COL)
RecipientOf(i) == Get(RowAt(i), RECIPIENT_COL)

\* Rows the forEach has handled in the current run, and those it processed
\* (took the try branch for).
Handled == 1..rowIdx
Processed(i) == outKind[i] # "skipped"

SendErrors ==
    {NoRecipient, TypeErrorMsg} \cup MailAppMessages \cup RenderMessages(variant)

\* The 1-based column a result is meant for.
StatusColumn == IndexOf(heads, EMAIL_SENT_COL) + 1
UrlColumn == IndexOf(heads, COPY_URL_COL) + 1

-----------------------------------------------------------------------------
\* C1: in a sendEmails run, a send call that throws is caught for its row only:
\* every eligible row after it is still rendered and sent (the send operation
\* is invoked for it), a run in which send was invoked never ends by an
\* exception, and a finished run has handled every data row.
C1_FailureIsolated ==
    variant \in SendVariants =>
        /\ \A i \in Handled : \A j \in Handled :
              ( /\ i < j
                /\ outKind[i] = "failure" /\ sendCalls[i] > 0
                /\ IsEligible(variant, RowAt(j), hidden[j]) )
              => sendCalls[j] = 1
        /\ (\E i \in DOMAIN sendCalls : sendCalls[i] > 0) => pc \in {"loop", "done"}
        /\ pc = "done" => rowIdx = Len(data)

\* C2: a second run on the sheet the first run wrote invokes send for no row
\* that the first run recorded as a success.
C2_NoResend ==
    variant \in SendVariants =>
        \A i \in prevSuccess : sendCalls[i] = 0

\* C3 as stated: a row is processed iff its status value is empty and the row
\* is not hidden.
C3_StatusAndFilterOnly ==
    variant \in SendVariants =>
        \A i \in Handled : Processed(i) <=> (StatusOf(i) = "" /\ ~hidden[i])

\* C3 as amended: a row is processed iff its status value is empty, the row is
\* not hidden and the recipient test of the variant passes (Code.gs:529 and
\* Code.gs:1072: recipient not empty; Code.gs:816: recipient empty; Code.js:288,
\* Code.js:644 and part_001: no test).
C3_Eligibility ==
    variant \in SendVariants =>
        \A i \in Handled :
            Processed(i) <=>
                /\ StatusOf(i) = ""
                /\ ~hidden[i]
                /\ CASE variant \in {"gs529", "gs1072"} -> RecipientOf(i) # ""
                     [] variant = "gs816" -> RecipientOf(i) = ""
                     [] OTHER -> TRUE

\* Rows [status empty, not hidden], [status empty, hidden], [status non-empty,
\* not hidden], each with a recipient: processed, skipped, skipped.
C3_Witness ==
    /\ variant = "gs529" /\ rowIdx = 3
    /\ \A i \in 1..3 : RecipientOf(i) # ""
    /\ << StatusOf(1), StatusOf(2), StatusOf(3) >> = << "", "", "sent" >>
    /\ hidden = << FALSE, TRUE, FALSE >>
    /\ Processed(1) /\ ~Processed(2) /\ ~Processed(3)

\* C4: when the header row fails the shape check or a required column name is
\* absent from it, the run processes no row: no send, no copy, no cell write.
RequiredColumnsPresent ==
    IF variant = "createCopies"
    THEN Includes(heads, COPY_NAME_COL) /\ Includes(heads, COPY_URL_COL)
    ELSE Includes(heads, RECIPIENT_COL) /\ Includes(heads, EMAIL_SENT_COL)

C4_StructuralErrorAborts ==
    (~isValidHeaderRow(heads) \/ ~RequiredColumnsPresent) =>
        /\ \A i \in DOMAIN sendCalls : sendCalls[i] = 0 /\ copyCalls[i] = 0
        /\ cellWrites = 0
        /\ \A i \in DOMAIN outKind : ~Processed(i)

\* C5: with no draft of the requested subject, sendEmails stops before the
\* per-row loop: no row is handled, no send, no cell write.
C5_MissingDraftIsFatal ==
    (variant \in SendVariants /\ ~draftFound) =>
        /\ pc # "loop" /\ rowIdx = 0
        /\ \A i \in DOMAIN sendCalls : sendCalls[i] = 0
        /\ cellWrites = 0

\* C6: the outcome sequence has one entry per handled data row whichever branch
\* the row took; after the write-back it has one entry per data row, entry i is
\* the outcome of data row i and is the content of sheet row i+2 in the status
\* column.
C6_OneOutcomePerRow ==
    variant \in SendVariants =>
        /\ pc \in {"loop", "done"} => Len(out) = rowIdx /\ Len(outKind) = rowIdx
        /\ pc = "done" =>
              /\ Len(out) = Len(data) /\ Len(data) = Len(cells)
              /\ \A i \in DOMAIN out :
                    /\ cells[i][StatusColumn] = out[i]
                    /\ IF IsEligible(variant, RowAt(i), hidden[i])
                       THEN \/ out[i] = DateValue /\ sendCalls[i] = 1
                            \/ out[i] \in SendErrors
                       ELSE out[i] = StatusOf(i) /\ sendCalls[i] = 0

\* A finished run over three rows that took the three branches.
C6_Witness ==
    /\ variant = "gs529" /\ pc = "done"
    /\ outKind = << "success", "skipped", "failure" >>
    /\ out[1] # out[2] /\ out[2] # out[3]

\* C7: when the per-row action throws for an eligible row, the message is in
\* that row's cell of the result column once the run has finished: the status
\* column for sendEmails, the URL column for createCopies.
C7_ErrorInResultColumn ==
    pc = "done" =>
        \A i \in DOMAIN outKind :
            outKind[i] = "failure" =>
                cells[i][IF variant = "createCopies" THEN UrlColumn ELSE StatusColumn]
                    = out[i]

\* C8: for every row that is not processed, the value written back to its
\* status cell is the value read from that cell, so the cell shows what it
\* showed before the run.
C8_SkippedCellUnchanged ==
    (variant \in SendVariants /\ pc = "done") =>
        \A i \in DOMAIN outKind :
            ~Processed(i) =>
                /\ out[i] = data[i][StatusColumn]
                /\ DisplayValue(cells[i][StatusColumn]) = data[i][StatusColumn]

\* C9: the sheet is written exactly once per run, after the pass over all rows,
\* and never while rows are still pending (sendEmails and createCopies).
C9_SingleWriteAfterPass ==
    /\ pc = "loop" => cellWrites = 0
    /\ pc = "done" => cellWrites = 1 /\ loopWrites = 0

\* C10: in a sendEmails run, send is invoked exactly once for each eligible row
\* and never for an ineligible row.
C10_SendOncePerEligibleRow ==
    variant \in SendVariants =>
        \A i \in Handled :
            sendCalls[i] = (IF IsEligible(variant, RowAt(i), hidden[i]) THEN 1 ELSE 0)

-----------------------------------------------------------------------------
\* The driving field of data row i: the recipient for sendEmails, the filename
\* for createCopies; and the value of its result field.
DrivingOf(i) ==
    Get(RowAt(i), IF variant = "createCopies" THEN COPY_NAME_COL ELSE RECIPIENT_COL)
ResultOf(i) ==
    Get(RowAt(i), IF variant = "createCopies" THEN COPY_URL_COL ELSE EMAIL_SENT_COL)

\* C11: the per-row action is never invoked for a row whose driving field is
\* empty (no send with an empty recipient, no copy for an empty filename), and
\* a row is processed only if its driving field is non-empty, its status is
\* empty and it is not hidden.
C11_DrivingFieldRequired ==
    \A i \in Handled :
        /\ (sendCalls[i] > 0 \/ copyCalls[i] > 0) => DrivingOf(i) \notin {"", Undefined}
        /\ Processed(i) =>
              DrivingOf(i) \notin {"", Undefined} /\ ResultOf(i) = "" /\ ~hidden[i]

\* C12: isValidHeaderRow(headers) is false exactly when fewer than two distinct
\* non-blank headers remain, and every entry point runs the check: with an
\* invalid header row no run reaches the per-row loop.
C12_ShapeCheckEverywhere ==
    /\ isValidHeaderRow(heads) <=>
          \E i \in DOMAIN heads : \E j \in DOMAIN heads :
              /\ heads[i] \notin {"", " ", "  "} /\ heads[j] \notin {"", " ", "  "}
              /\ heads[i] # heads[j]
    /\ ~isValidHeaderRow(heads) => pc \notin {"loop", "done"} /\ rowIdx = 0

\* C13: no batch runs over a header row in which a non-empty header name occurs
\* more than once: validation rejects it before any record is built.
C13_DuplicatesRejected ==
    pc \in {"loop", "done"} =>
        \A i \in DOMAIN heads : \A j \in DOMAIN heads :
            (i # j /\ heads[i] # "") => heads[i] # heads[j]

-----------------------------------------------------------------------------
\* Inputs of a call.  The text of the draft is up to MaxSegments pieces: plain
\* characters, characters JSON.stringify escapes, placeholders (of a field of
\* the row, of a field whose name holds a quote, of no field, of an inherited
\* name) and unbalanced markers.
Segments ==
    { << "a" >>, << QT >>, << BS >>, << NL >>,
      Placeholder(<< "n" >>), Placeholder(<< "x" >>),
      Placeholder(<< "q", QT >>), Placeholder(<< "constructor" >>),
      << "{", "{", "a" >>, << "a", "}", "}" >> }

RECURSIVE Concats(_)
Concats(n) ==
    IF n = 0 THEN { << >> }
    ELSE LET shorter == Concats(n - 1)
         IN  shorter \cup {p \o sg : p \in shorter, sg \in Segments}

Subjects == { << "a" >>, Placeholder(<< "n" >>), << "{", "{", "a" >> }
HtmlBodies == { << "a" >>, << "a", "}", "}" >> }

Templates ==
    [subject : Subjects, text : Concats(MaxSegments), html : HtmlBodies]

\* Display values of the cell under header n; the cell under header q" is "a".
FieldValues ==
    { << >>, << "a" >>, << BS, QT, NL >>, << "a", NL, "a" >>, << SL >>,
      << "{" >>, << Backspace >>, << "a", VT, "b" >>, Placeholder(<< "n" >>) }

Records ==
    { [k \in { << "n" >>, << "q", QT >> } |-> IF k = << "n" >> THEN v ELSE << "a" >>] :
        v \in FieldValues }

\* A call of fillInTemplateFromObject_ on its own; the sheet is left alone.
InitRender ==
    /\ variant = "gs529"
    /\ heads = << "Email", "Status" >>
    /\ cells = << << "a@x.com", "" >> >>
    /\ hidden = << FALSE >>
    /\ draftFound = TRUE
    /\ renderError = ""
    /\ RECIPIENT_COL = "Email" /\ EMAIL_SENT_COL = "Status"
    /\ COPY_NAME_COL = "" /\ COPY_URL_COL = ""
    /\ pc = "idle"
    /\ emailTemplate = Undefined
    /\ data = << >>
    /\ rowIdx = 0
    /\ out = << >>
    /\ outKind = << >>
    /\ sendCalls = << 0 >>
    /\ copyCalls = << 0 >>
    /\ cellWrites = 0
    /\ loopWrites = 0
    /\ runs = 0
    /\ prevSuccess = {}
    /\ prevFailure = {}
    /\ retrievals = 0
    /\ FilesIdle /\ UrlIdle /\ RaceIdle
    /\ renderer \in Renderers
    /\ regExpEscape \in (IF renderer = "part003" THEN BOOLEAN ELSE {FALSE})
    /\ template \in Templates
    /\ record \in Records
    /\ rpc = "start"
    /\ template_string = << >>
    /\ msgObj = << >>

\* let template_string = JSON.stringify(template);
Stringify ==
    /\ rpc = "start"
    /\ template_string' = JSONstringify(template)
    /\ rpc' = "stringified"
    /\ UNCHANGED << mainVars, besideVars, renderer, regExpEscape, template, record, msgObj >>

\* template_string = template_string.replace(...), no callback throwing.
Replace ==
    /\ rpc = "stringified"
    /\ ~stringReplaceThrows(renderer, regExpEscape, record, template_string)
    /\ template_string' = stringReplace(renderer, record, template_string)
    /\ rpc' = "replaced"
    /\ UNCHANGED << mainVars, besideVars, renderer, regExpEscape, template, record, msgObj >>

\* The replacer callback throws; the TypeError leaves the function.
ReplaceThrows ==
    /\ rpc = "stringified"
    /\ stringReplaceThrows(renderer, regExpEscape, record, template_string)
    /\ rpc' = "threw"
    /\ UNCHANGED << mainVars, besideVars, renderer, regExpEscape, template, record,
                    template_string, msgObj >>

\* return JSON.parse(template_string);
Parse ==
    /\ rpc = "replaced"
    /\ JSONparse(template_string).ok
    /\ msgObj' = JSONparse(template_string).obj
    /\ rpc' = "done"
    /\ UNCHANGED << mainVars, besideVars, renderer, regExpEscape, template, record,
                    template_string >>

\* JSON.parse throws a SyntaxError, which leaves the function.
ParseThrows ==
    /\ rpc = "replaced"
    /\ ~JSONparse(template_string).ok
    /\ rpc' = "threw"
    /\ UNCHANGED << mainVars, besideVars, renderer, regExpEscape, template, record,
                    template_string, msgObj >>

NextRender == Stringify \/ Replace \/ ReplaceThrows \/ Parse \/ ParseThrows

SpecRender == InitRender /\ [][NextRender]_vars

-----------------------------------------------------------------------------
\* Vocabulary of the rendering properties: the template as its author wrote
\* it, field by field.

Fields == {"subject", "text", "html"}

\* The names of the {{name}} placeholders of the text f.
RECURSIVE NamesFrom(_, _, _)
NamesFrom(f, i, e) ==
    IF i > Len(f) THEN {}
    ELSE IF e > 0
         THEN {SubSeq(f, i + 2, e - 2)} \cup NamesFrom(f, e + 1, MatchEnd(f, e + 1))
         ELSE NamesFrom(f, i + 1, MatchEnd(f, i + 1))

PlaceholderNames(f) == NamesFrom(f, 1, MatchEnd(f, 1))
TemplateNames == UNION {PlaceholderNames(template[k]) : k \in Fields}

\* The text f with each placeholder {{name}} replaced by subst[name].
RECURSIVE SubstFrom(_, _, _, _)
SubstFrom(subst, f, i, e) ==
    IF i > Len(f) THEN << >>
    ELSE IF e > 0
         THEN subst[SubSeq(f, i + 2, e - 2)]
              \o SubstFrom(subst, f, e + 1, MatchEnd(f, e + 1))
         ELSE << f[i] >> \o SubstFrom(subst, f, i + 1, MatchEnd(f, i + 1))

Substituted(subst, f) == SubstFrom(subst, f, 1, MatchEnd(f, 1))

\* The value of the field called name, empty when the row has no such field.
FieldValue(name) == IF name \in DOMAIN record THEN record[name] ELSE << >>

HasMarker(f) == \E i \in 1..Len(f) : MatchEnd(f, i) > 0

\* C14: rendering never throws, and when every placeholder of the template
\* names no field of the row or a field whose value is empty, the message
\* returned is the template with every placeholder removed.  Checked for the
\* copies at Code.gs:727 and part_003:105.
C14_MissingRendersEmpty ==
    (renderer \in {"gs727", "part003"} /\ rpc \in {"done", "threw"}) =>
        /\ rpc = "done"
        /\ (\A nm \in TemplateNames : FieldValue(nm) = << >>) =>
              msgObj = [k \in Fields |->
                          Substituted([nm \in TemplateNames |-> << >>], template[k])]

\* Every {{ and }} of the text f belongs to a placeholder.
Balanced(f) ==
    LET rest == Substituted([nm \in PlaceholderNames(f) |-> << >>], f)
    IN  \A i \in 1..(Len(rest) - 1) :
            ~(rest[i] = "{" /\ rest[i + 1] = "{") /\ ~(rest[i] = "}" /\ rest[i + 1] = "}")

\* C15: when every placeholder of the template names a field of the row, the
\* message returned by the copy at Code.gs:727 is the template with each
\* {{field}} replaced by exactly the value of the field, and no {{...}} marker
\* is left in it.  Stated for the templates in which every {{ and }} belongs to
\* a placeholder.
C15_RenderRoundTrip ==
    ( /\ renderer = "gs727" /\ rpc \in {"done", "threw"}
      /\ \A k \in Fields : Balanced(template[k])
      /\ \A nm \in TemplateNames : nm \in DOMAIN record ) =>
        /\ rpc = "done"
        /\ msgObj = [k \in Fields |->
                       Substituted([nm \in TemplateNames |-> FieldValue(nm)],
                                   template[k])]
        /\ \A k \in Fields : ~HasMarker(msgObj[k])

\* The characters of a string.
Chars(f) == {f[i] : i \in DOMAIN f}

\* C16: in the copy at Code.gs:727, the text substituted for a placeholder of
\* the field n, put inside a JSON string, parses back to the value of the field
\* with each newline turned into <br> and every other character (backslash and
\* double quote included) as it was; so a text that is just {{n}} renders to
\* exactly that.  Stated for the values whose control characters are among
\* those escapeData_ has a pass for.
C16_EscapingRoundTrip ==
    (renderer = "gs727" /\ rpc # "idle" /\ VT \notin Chars(record[<< "n" >>])) =>
        LET sub == Replacer(renderer, record, << "n" >>)
            expected == replaceChar(record[<< "n" >>], NL, LineBreak)
        IN  /\ StringBody(sub \o << QT >>, 1, << >>)
                  = [ok |-> TRUE, val |-> expected, next |-> Len(sub) + 2]
            /\ (rpc = "done" /\ template.text = Placeholder(<< "n" >>)) =>
                  "text" \in DOMAIN msgObj /\ msgObj.text = expected

\* A value holding a backslash, a double quote and a newline was substituted.
C16_Witness ==
    /\ renderer = "gs727" /\ rpc = "done"
    /\ template.text = Placeholder(<< "n" >>)
    /\ record[<< "n" >>] = << BS, QT, NL >>
    /\ msgObj.text = << BS, QT, "<", "b", "r", ">" >>

\* What a placeholder may turn into: nothing, or the value of a field with its
\* newlines kept or turned into <br>.
Substitutions ==
    { << >> } \cup {record[nm] : nm \in DOMAIN record}
              \cup {replaceChar(record[nm], NL, LineBreak) : nm \in DOMAIN record}

\* The texts that are f with every placeholder replaced by some substitution
\* and every other character kept.
RECURSIVE RenderingsFrom(_, _, _)
RenderingsFrom(f, i, e) ==
    IF i > Len(f) THEN { << >> }
    ELSE IF e > 0
         THEN {c \o rest : c \in Substitutions,
                           rest \in RenderingsFrom(f, e + 1, MatchEnd(f, e + 1))}
         ELSE {<< f[i] >> \o rest :
                  rest \in RenderingsFrom(f, i + 1, MatchEnd(f, i + 1))}

Renderings(f) == RenderingsFrom(f, 1, MatchEnd(f, 1))

\* C17: the message returned by the copy at Code.gs:727 has, in every field,
\* the text of the template outside the placeholders unchanged; a template
\* without placeholder renders to itself.
C17_LiteralTextKept ==
    (renderer = "gs727" /\ rpc \in {"done", "threw"}) =>
        /\ rpc = "done" =>
              \A k \in Fields : k \in DOMAIN msgObj /\ msgObj[k] \in Renderings(template[k])
        /\ TemplateNames = {} => rpc = "done" /\ msgObj = template

\* C18: in every copy, a newline of a substituted value comes out as <br>: the
\* message has a newline only if the template has one, and a field that is
\* just {{n}} renders to the value with <br> for each newline.
C18_NewlineBecomesBreak ==
    rpc = "done" =>
        \A k \in DOMAIN msgObj :
            /\ NL \in Chars(msgObj[k]) => \E t \in Fields : NL \in Chars(template[t])
            /\ template[k] = Placeholder(<< "n" >>) =>
                  msgObj[k] = replaceChar(record[<< "n" >>], NL, LineBreak)

-----------------------------------------------------------------------------
\* C19: the batch has one record per data row, and in the record of data row i
\* each header name maps to the cell of that row at the header's position.
C19_RecordsFollowPositions ==
    pc \in {"loop", "done"} =>
        /\ Len(data) = Len(cells)
        /\ \A i \in DOMAIN data :
              /\ DOMAIN RowAt(i) = {heads[j] : j \in DOMAIN heads}
              /\ \A j \in DOMAIN heads : RowAt(i)[heads[j]] = data[i][j]

\* C20: the value recorded for a row whose action threw is a non-empty string,
\* so it differs from the value recorded for an unprocessed row whose status
\* is empty.
C20_FailureHasMessage ==
    \A i \in DOMAIN outKind :
        outKind[i] = "failure" =>
            /\ out[i] \notin {"", Undefined}
            /\ \A j \in DOMAIN outKind :
                  (outKind[j] = "skipped" /\ ResultOf(j) = "") => out[i] # out[j]

-----------------------------------------------------------------------------
\* C21: in createCopies the URL of the copy made for a data row is in that
\* row's cell of the column whose header is COPY_URL_COL, which is the column
\* the urlColumn parameter names; when the parameter and the position of the
\* header disagree no copy is made.
C21_UrlInUrlColumn ==
    variant = "createCopies" =>
        /\ \A i \in DOMAIN outKind :
              outKind[i] = "success" =>
                  /\ urlColumnParam = UrlColumn
                  /\ cells[i][UrlColumn] = FileUrl
        /\ urlColumnParam # UrlColumn =>
              \A i \in DOMAIN copyCalls : copyCalls[i] = 0

-----------------------------------------------------------------------------
\* copyFiles and copyFolders (Code.js:125, Code.js:166)

MaxFirstRow == 3

\* The one-row sheet the runs of Spec are not started on.
MainIdle ==
    /\ variant = "gs529"
    /\ heads = << "Email", "Status" >>
    /\ cells = << << "a@x.com", "" >> >>
    /\ hidden = << FALSE >>
    /\ draftFound = TRUE
    /\ renderError = ""
    /\ RECIPIENT_COL = "Email" /\ EMAIL_SENT_COL = "Status"
    /\ COPY_NAME_COL = "" /\ COPY_URL_COL = ""
    /\ pc = "idle"
    /\ emailTemplate = Undefined
    /\ data = << >>
    /\ rowIdx = 0
    /\ out = << >>
    /\ outKind = << >>
    /\ sendCalls = << 0 >>
    /\ copyCalls = << 0 >>
    /\ cellWrites = 0
    /\ loopWrites = 0
    /\ runs = 0
    /\ prevSuccess = {}
    /\ prevFailure = {}
    /\ retrievals = 0

\* The name a cell of the range may hold, by position, and the URL Drive gives
\* the file or folder created with that name.
Names == << "alpha", "beta", "gamma", "delta", "epsilon" >>
Urls == << "https://drive/1", "https://drive/2", "https://drive/3",
           "https://drive/4", "https://drive/5" >>

UrlOf(name) == Urls[CHOOSE p \in DOMAIN Names : Names[p] = name]

\* range.getDisplayValues() of a one-column range of n cells, each blank or
\* holding the name of its position.
NameRanges ==
    UNION { {f \in [1..n -> {""} \cup {Names[p] : p \in 1..n}] :
                \A p \in 1..n : f[p] \in {"", Names[p]}} : n \in 1..MaxRows }

\* filenames.filter((filename) => filename[0] !== "")
filteredFilenames == SelectSeq(filenames, LAMBDA f : f # "")

InitCopyFiles ==
    /\ MainIdle /\ RenderIdle /\ UrlIdle /\ RaceIdle
    /\ copier \in {"copyFiles", "copyFolders"}
    /\ firstRow \in 2..MaxFirstRow
    /\ filenames \in NameRanges
    /\ loopIdx = 0
    /\ urlCells = [r \in 1..(firstRow + Len(filenames) - 1) |-> ""]
    /\ cpc = "idle"

\* The statements before the for loop: the range is read and filtered.
copyFilesBegin ==
    /\ cpc = "idle"
    /\ cpc' = "loop"
    /\ loopIdx' = 0
    /\ UNCHANGED << mainVars, renderVars, urlVars, raceVars, copier, firstRow,
                    filenames, urlCells >>

\* One pass of the loop body: makeCopy / createFolder returns, then
\* sheet.getRange(2 + i, parseInt(urlWriteColumn)).setValue(fileUrl).
copyFilesStep ==
    /\ cpc = "loop" /\ loopIdx < Len(filteredFilenames)
    /\ urlCells' = [urlCells EXCEPT ![2 + loopIdx] =
                                       UrlOf(filteredFilenames[loopIdx + 1])]
    /\ loopIdx' = loopIdx + 1
    /\ UNCHANGED << mainVars, renderVars, urlVars, raceVars, copier, firstRow,
                    filenames, cpc >>

\* makeCopy / createFolder throws: nothing catches it.
copyFilesStepThrows ==
    /\ cpc = "loop" /\ loopIdx < Len(filteredFilenames)
    /\ cpc' = "crashed"
    /\ UNCHANGED << mainVars, renderVars, urlVars, raceVars, copier, firstRow,
                    filenames, loopIdx, urlCells >>

\* The loop condition fails: the function returns.
copyFilesEnd ==
    /\ cpc = "loop" /\ loopIdx = Len(filteredFilenames)
    /\ cpc' = "done"
    /\ UNCHANGED << mainVars, renderVars, urlVars, raceVars, copier, firstRow,
                    filenames, loopIdx, urlCells >>

NextCopyFiles ==
    \/ copyFilesBegin
    \/ copyFilesStep
    \/ copyFilesStepThrows
    \/ copyFilesEnd

SpecCopyFiles == InitCopyFiles /\ [][NextCopyFiles]_vars

\* The sheet row of position p of the name range.
RowOfName(p) == firstRow + p - 1

\* C22: when copyFiles or copyFolders has returned, for every non-blank name
\* of the range the URL of what was created for that name is in the sheet row
\* that holds the name, wherever the range starts and whatever cells of it are
\* blank.
C22_UrlBesideItsName ==
    cpc = "done" =>
        \A p \in DOMAIN filenames :
            filenames[p] # "" => urlCells[RowOfName(p)] = UrlOf(filenames[p])

-----------------------------------------------------------------------------
\* removeQueryFromUrl ("js99": Code.js:99, DriveHelper.js:38 and part_000:119,
\* which are the same text; "part001": part_001:49)

MaxUrlLen == 3

UrlVariants == {"js99", "part001"}

\* JavaScript values: a string, as the sequence of its characters, or undefined.
Str(chars) == [kind |-> "string", chars |-> chars]
UndefinedValue == [kind |-> "undefined"]

\* String(url)
String(v) ==
    IF v.kind = "undefined"
    THEN << "u", "n", "d", "e", "f", "i", "n", "e", "d" >>
    ELSE v.chars

\* Where /\?.*$/ matches in str, 0 when it does not: the leftmost "?" with no
\* line terminator between it and the end of the string ("." does not match a
\* line terminator and "$", without the m flag, only the end of the input).
myRegexIndex(str) ==
    LET starts == {k \in DOMAIN str :
                      /\ str[k] = "?"
                      /\ \A j \in DOMAIN str : j > k => str[j] # NL}
    IN  IF starts = {} THEN 0
        ELSE CHOOSE k \in starts : \A j \in starts : k <= j

\* if (myRegex.test(String(url))) return String(url).replace(myRegex, '');
\* then return url (Code.js:104) or nothing (part_001).
removeQueryFromUrl(v, u) ==
    LET str == String(u)
        k == myRegexIndex(str)
    IN  IF k > 0 THEN Str(SubSeq(str, 1, k - 1))
        ELSE IF v = "part001" THEN UndefinedValue
        ELSE u

UrlChars == {"a", "?", NL}

UrlTexts == UNION {[1..n -> UrlChars] : n \in 0..MaxUrlLen}

InitUrl ==
    /\ MainIdle /\ RenderIdle /\ FilesIdle /\ RaceIdle
    /\ urlVariant \in UrlVariants
    /\ url \in {Str(t) : t \in UrlTexts}
    /\ once = UndefinedValue
    /\ twice = UndefinedValue
    /\ upc = "start"

\* once = removeQueryFromUrl(url)
ApplyOnce ==
    /\ upc = "start"
    /\ once' = removeQueryFromUrl(urlVariant, url)
    /\ upc' = "once"
    /\ UNCHANGED << mainVars, renderVars, filesVars, raceVars, urlVariant, url,
                    twice >>

\* twice = removeQueryFromUrl(once)
ApplyTwice ==
    /\ upc = "once"
    /\ twice' = removeQueryFromUrl(urlVariant, once)
    /\ upc' = "twice"
    /\ UNCHANGED << mainVars, renderVars, filesVars, raceVars, urlVariant, url,
                    once >>

NextUrl == ApplyOnce \/ ApplyTwice

SpecUrl == InitUrl /\ [][NextUrl]_vars

\* The text before the first "?" of str, str itself when it has none.
BeforeFirstMark(str) ==
    LET marks == {k \in DOMAIN str : str[k] = "?"}
    IN  IF marks = {} THEN str
        ELSE SubSeq(str, 1, (CHOOSE k \in marks : \A j \in marks : k <= j) - 1)

\* C23: in every copy of removeQueryFromUrl the result is the argument with
\* everything from the first "?" removed, the argument itself when it has no
\* "?", and applying the function to its result gives the result again.
C23_QueryRemoved ==
    /\ upc \in {"once", "twice"} => once = Str(BeforeFirstMark(url.chars))
    /\ upc = "twice" => twice = once

-----------------------------------------------------------------------------
\* C24: a second createCopies run on the sheet the first run left makes no copy
\* for a row the first run made a copy for.
C24_NoSecondCopy ==
    variant = "createCopies" =>
        \A i \in prevSuccess : copyCalls[i] = 0

\* C25: in sendEmails, for every header row that passes isValidHeaderRow and
\* holds the status header, the value the eligibility test reads for a row is
\* the cell of the column the outcome is written back to, also when the status
\* header name is in more than one column.
C25_ReadColumnIsWriteColumn ==
    ( /\ variant \in SendVariants /\ pc \in {"loop", "done"}
      /\ isValidHeaderRow(heads) /\ Includes(heads, EMAIL_SENT_COL) ) =>
        \A i \in DOMAIN data : StatusOf(i) = data[i][emailSentColIdx + 1]

-----------------------------------------------------------------------------
\* Two executions of sendEmails (Code.gs:529) on one sheet at the same time:
\* nothing in sendEmails takes a lock, so the steps of the two interleave.

MaxRaceRows == 2

Procs == {1, 2}

NewJob == [pc |-> "idle", data |-> << >>, rowIdx |-> 0, out |-> << >>]

InitRace ==
    /\ variant = "gs529"
    /\ heads = << "Email", "Status" >>
    /\ \E n \in 1..MaxRaceRows :
          /\ cells \in [1..n -> {<< "a@x.com", "" >>, << "a@x.com", "sent" >>}]
          /\ hidden = [i \in 1..n |-> FALSE]
    /\ draftFound = TRUE
    /\ renderError \in {""} \cup ReplacerMessages(variant)
    /\ RECIPIENT_COL = "Email" /\ EMAIL_SENT_COL = "Status"
    /\ COPY_NAME_COL = "" /\ COPY_URL_COL = ""
    /\ pc = "idle"
    /\ emailTemplate = Template
    /\ data = << >>
    /\ rowIdx = 0
    /\ out = << >>
    /\ outKind = << >>
    /\ sendCalls = [i \in DOMAIN cells |-> 0]
    /\ copyCalls = [i \in DOMAIN cells |-> 0]
    /\ cellWrites = 0
    /\ loopWrites = 0
    /\ runs = 0
    /\ prevSuccess = {}
    /\ prevFailure = {}
    /\ retrievals = 0
    /\ RenderIdle /\ FilesIdle /\ UrlIdle
    /\ job = [p \in Procs |-> NewJob]
    /\ sends = [i \in DOMAIN cells |-> 0]
    /\ overlapped = FALSE

\* What every step of an execution leaves alone.
RaceFrame ==
    UNCHANGED << sheetVars, pc, emailTemplate, data, rowIdx, out, outKind,
                 sendCalls, copyCalls, cellWrites, loopWrites, runs,
                 prevSuccess, prevFailure, retrievals, renderVars, filesVars,
                 urlVars >>

\* The record of the row execution p is at, from p's own snapshot.
JobRow(p) == RowObject(heads, job[p].data[job[p].rowIdx + 1])

JobInLoop(p) == job[p].pc = "loop" /\ job[p].rowIdx < Len(job[p].data)

JobPush(p, value) ==
    job' = [job EXCEPT ![p].out = Append(@, value), ![p].rowIdx = @ + 1]

\* Execution p up to the forEach: the snapshot is what the sheet shows now.
RaceBegin(p) ==
    /\ job[p].pc = "idle"
    /\ job' = [job EXCEPT ![p] = [pc |-> sendEmailsPrelude(variant, heads, emailTemplate),
                                  data |-> getDisplayValues(cells),
                                  rowIdx |-> 0,
                                  out |-> << >>]]
    /\ overlapped' = (overlapped \/ \E q \in Procs \ {p} : job[q].pc = "loop")
    /\ UNCHANGED << cells, sends >>
    /\ RaceFrame

\* Eligible in p's snapshot, MailApp.sendEmail returns.
RaceRowSent(p) ==
    /\ JobInLoop(p) /\ renderError = ""
    /\ IsEligible(variant, JobRow(p), hidden[job[p].rowIdx + 1])
    /\ sends' = [sends EXCEPT ![job[p].rowIdx + 1] = @ + 1]
    /\ JobPush(p, DateValue)
    /\ UNCHANGED << cells, overlapped >>
    /\ RaceFrame

\* Eligible in p's snapshot, MailApp.sendEmail throws: the message is pushed.
RaceRowSendThrows(p) ==
    /\ JobInLoop(p) /\ renderError = ""
    /\ IsEligible(variant, JobRow(p), hidden[job[p].rowIdx + 1])
    /\ sends' = [sends EXCEPT ![job[p].rowIdx + 1] = @ + 1]
    /\ \E message \in MailAppMessages : JobPush(p, message)
    /\ UNCHANGED << cells, overlapped >>
    /\ RaceFrame

\* Eligible in p's snapshot, fillInTemplateFromObject_ throws: the message is
\* pushed, MailApp.sendEmail is not reached.
RaceRowRenderThrows(p) ==
    /\ JobInLoop(p)
    /\ IsEligible(variant, JobRow(p), hidden[job[p].rowIdx + 1])
    /\ renderError # ""
    /\ JobPush(p, renderError)
    /\ UNCHANGED << cells, sends, overlapped >>
    /\ RaceFrame

\* Not eligible in p's snapshot: the status value of the snapshot is pushed.
RaceRowSkipped(p) ==
    /\ JobInLoop(p)
    /\ ~IsEligible(variant, JobRow(p), hidden[job[p].rowIdx + 1])
    /\ JobPush(p, Get(JobRow(p), EMAIL_SENT_COL))
    /\ UNCHANGED << cells, sends, overlapped >>
    /\ RaceFrame

\* sheet.getRange(2, emailSentColIdx + 1, out.length).setValues(out) of p.
RaceWriteBack(p) ==
    /\ job[p].pc = "loop" /\ job[p].rowIdx = Len(job[p].data)
    /\ cells' = setValues(cells, emailSentColIdx + 1, job[p].out)
    /\ job' = [job EXCEPT ![p].pc = "done"]
    /\ UNCHANGED << sends, overlapped >>
    /\ RaceFrame

NextRace ==
    \E p \in Procs :
        \/ RaceBegin(p)
        \/ RaceRowSent(p)
        \/ RaceRowSendThrows(p)
        \/ RaceRowRenderThrows(p)
        \/ RaceRowSkipped(p)
        \/ RaceWriteBack(p)

SpecRace == InitRace /\ [][NextRace]_vars

\* C26: when two sendEmails executions on one sheet overlap, no data row has
\* the send operation invoked more than once in total, and once both have
\* written back, the status cell of every row that was sent shows the send.
C26_NoDoubleSendWhenOverlapping ==
    overlapped =>
        /\ \A i \in DOMAIN sends : sends[i] <= 1
        /\ (\A p \in Procs : job[p].pc = "done") =>
              \A i \in DOMAIN cells :
                  (\E p \in Procs : job[p].out[i] = DateValue) =>
                      cells[i][emailSentColIdx + 1] = DateValue

-----------------------------------------------------------------------------
\* C27: a row whose processing failed in a finished sendEmails run is not
\* processed again by the next run on the sheet that run wrote: the run takes
\* the else branch for it and invokes no send.
C27_FailedRowNotRetried ==
    variant \in SendVariants =>
        \A i \in prevFailure :
            /\ sendCalls[i] = 0
            /\ i \in Handled => ~Processed(i)

-----------------------------------------------------------------------------
\* C28: a step of a sendEmails run (any step that does not leave the sheet with
\* no run, as retrieveFiles and retrieveFolders do) changes no cell outside the status column
\* of the data rows: the header row, the number of rows, the width of every
\* row and every cell of another column stay as they were.
C28_OnlyStatusColumnWritten ==
    [][ ( (variant \in SendVariants /\ pc' # "idle") =>
            ( /\ heads' = heads
              /\ DOMAIN cells' = DOMAIN cells
              /\ \A i \in DOMAIN cells :
                    /\ DOMAIN cells'[i] = DOMAIN cells[i]
                    /\ \A j \in DOMAIN cells[i] :
                          j # emailSentColIdx + 1 => cells'[i][j] = cells[i][j] ) )
      ]_vars

\* A finished run on three rows that wrote a Date and an error text into the
\* status column, beside recipient cells that are not empty.
C28_Witness ==
    /\ variant = "gs529" /\ heads = << "Email", "Status" >> /\ pc = "done"
    /\ cellWrites = 1
    /\ cells = << << "a@x.com", DateValue >>,
                  << "a@x.com", ServiceError >>,
                  << "a@x.com", "sent" >> >>

-----------------------------------------------------------------------------
\* C29: when a required header name is the empty string, the run stops before
\* the per-row loop, with no send, no copy and no cell write, also when a cell
\* of the header row is blank.
C29_EmptyHeaderNameAborts ==
    (IF variant = "createCopies"
     THEN COPY_NAME_COL = "" \/ COPY_URL_COL = ""
     ELSE RECIPIENT_COL = "" \/ EMAIL_SENT_COL = "") =>
        /\ pc \notin {"loop", "done"}
        /\ \A i \in DOMAIN sendCalls : sendCalls[i] = 0 /\ copyCalls[i] = 0
        /\ cellWrites = 0

====
